---- MODULE Spec2Model ----
(***************************************************************************)
(* Model of infra/terraform/lambdas/dynamodb_itemcount_publisher.py:       *)
(* one invocation of lambda_handler, with the two remote services          *)
(* (DynamoDB scan, CloudWatch put_metric_data) as a nondeterministic       *)
(* environment that may answer or raise on every call.                     *)
(*                                                                         *)
(* Strings are sequences of one-character strings, so that split(",") and  *)
(* strip() are computed character by character.                            *)
(***************************************************************************)
EXTENDS Integers, Sequences, FiniteSets, TLC

\* ---------------------------------------------------------------- bounds
MaxEnvLen     == 3   \* longest TABLES value enumerated character by character
MaxCount      == 2   \* largest Count a scan response carries
MaxPages      == 2   \* most pages one paginated scan delivers
MaxFaults     == 4   \* store calls that may raise in a run over a short list
MaxLongFaults == 1   \* store calls that may raise in a run over a long list
MaxBatches    == 2   \* long lists fill up to MaxBatches batches, and one point more

\* ------------------------------------------------------- program constants
BatchSize == 20
NAMESPACE == "examapp/DynamoDB"

Chars == {"a", ",", " "}

\* ------------------------------------------------------------ pure helpers
Min(a, b) == IF a <= b THEN a ELSE b

RECURSIVE SumSeq(_)
SumSeq(s) == IF s = <<>> THEN 0 ELSE s[1] + SumSeq(Tail(s))

\* str.split(","): "" gives [""], "," gives ["", ""], "a,b" gives ["a", "b"];
\* piece j lies between the (j-1)-th and the j-th comma
Split(s) ==
  LET commas == {k \in 1..Len(s) : s[k] = ","}
      cut(j) == IF j = 0 THEN 0
                ELSE IF j > Cardinality(commas) THEN Len(s) + 1
                ELSE CHOOSE k \in commas : Cardinality({m \in commas : m < k}) = j - 1
  IN  [j \in 1..(Cardinality(commas) + 1) |-> SubSeq(s, cut(j - 1) + 1, cut(j) - 1)]

\* str.strip(): leading and trailing whitespace removed
RECURSIVE LStrip(_)
LStrip(s) == IF s # <<>> /\ s[1] = " " THEN LStrip(Tail(s)) ELSE s

RECURSIVE RStrip(_)
RStrip(s) ==
  IF s # <<>> /\ s[Len(s)] = " " THEN RStrip(SubSeq(s, 1, Len(s) - 1)) ELSE s

Strip(s) == RStrip(LStrip(s))

\* os.environ.get("TABLES", ""): the default when the variable is unset
EnvGet(e) == IF e.set THEN e.val ELSE <<>>

\* ---------------------------------------------------------- configurations
ShortEnvVals == UNION {[1..n -> Chars] : n \in 0..MaxEnvLen}

\* "a, aa,a, aa,...": n names, alternately "a" and " aa"
LongBlock == <<"a", ",", " ", "a", "a", ",">>

LongEnvVal(n) ==
  LET len == IF n % 2 = 1 THEN 3 * (n - 1) + 1 ELSE 3 * n - 1
  IN  [k \in 1..len |-> LongBlock[((k - 1) % 6) + 1]]

LongLens == {k * BatchSize + d : k \in 1..MaxBatches, d \in 0..1}

\* -------------------------------------------------------------------- state
VARIABLES
  env,          \* the TABLES environment variable: [set, val]
  TABLES,       \* module-level list, computed once at import
  store,        \* what the remote store may answer in this run: [counts, maxPages]
  faults,       \* store calls that may still raise in this run
  pc,           \* position of the invocation
  idx,          \* 1-based position of the for loop over TABLES
  total,        \* scan_count's local total (0 outside scan_count)
  pagesSeen,    \* Counts of the pages delivered to the running scan_count
  metric_data,  \* publish_counts' accumulated list
  i,            \* offset of the publish loop
  storeCalls,   \* number of requests sent to the remote store
  putCalls,     \* put_metric_data calls in order: [Namespace, MetricData, ok]
  scanLog,      \* outcome of every scan_count call:
                \*   [idx, table, kind, partial, resp]
  status        \* the returned status, "none" until the handler returns

vars == <<env, TABLES, store, faults, pc, idx, total, pagesSeen, metric_data,
          i, storeCalls, putCalls, scanLog, status>>

Statuses == {"ok", "error", "no-tables"}

\* ------------------------------------------------- pieces of the handlers
\* line 59: not TABLES or TABLES == [""]
NoTables(T) == T = <<>> \/ T = << <<>> >>

BlankNoStrip(t) == t = <<>>
\* lines 32-33: table = table.strip(); if not table
Blank(t) == Strip(t) = <<>>

\* lines 38-43
MetricPoint(table, count) ==
  [MetricName |-> "ItemCount",
   Dimensions |-> <<[Name |-> "TableName", Value |-> table]>>,
   Value      |-> count,
   Unit       |-> "Count"]

\* line 21: total += int(page.get('Count', 0))
AddPage(t, c) == t + c

FallbackAdds(t, c) == t + c
\* line 25: total = int(resp.get('Count', 0))
FallbackTotal(t, c) == c

MoreBatchesInclusive(md, k) == k <= Len(md)
\* line 49: range(0, len(metric_data), 20) still has the offset k
MoreBatches(md, k) == k < Len(md)

NextStartShort(k) == k + BatchSize - 1
\* line 49: the step of the range
NextStart(k) == k + BatchSize

BatchShort(md, k) == SubSeq(md, k + 1, Min(k + BatchSize - 1, Len(md)))
\* line 50: metric_data[i:i+20]
Batch(md, k) == SubSeq(md, k + 1, Min(k + BatchSize, Len(md)))

StatusAlwaysOk(ok) == "ok"
\* line 64: "ok" if ok else "error"
StatusOf(ok) == IF ok THEN "ok" ELSE "error"

\* --------------------------------------------------------------------- Init
\* Every value of TABLES of up to MaxEnvLen characters (and the variable
\* unset), against a store that may answer any Count on any page and may
\* raise on up to MaxFaults calls.
ShortRun ==
  /\ env \in {[set |-> FALSE, val |-> <<>>]}
             \cup {[set |-> TRUE, val |-> v] : v \in ShortEnvVals}
  /\ store = [counts |-> 0..MaxCount, maxPages |-> MaxPages]
  /\ faults = MaxFaults

\* Lists long enough to fill several batches, against a store whose tables
\* all hold one page of Count 1 and that may raise on up to MaxLongFaults
\* calls.
LongRun ==
  /\ env \in {[set |-> TRUE, val |-> LongEnvVal(n)] : n \in LongLens}
  /\ store = [counts |-> {1}, maxPages |-> 1]
  /\ faults = MaxLongFaults

Init ==
  /\ (ShortRun \/ LongRun)
  /\ TABLES = Split(EnvGet(env))
  /\ pc = "start"
  /\ idx = 0
  /\ total = 0
  /\ pagesSeen = <<>>
  /\ metric_data = <<>>
  /\ i = 0
  /\ storeCalls = 0
  /\ putCalls = <<>>
  /\ scanLog = <<>>
  /\ status = "none"

\* ------------------------------------------------------------------ actions
\* lambda_handler, lines 58-63: the guard, then the call of publish_counts
HandlerNoTables ==
  /\ pc = "start"
  /\ NoTables(TABLES)
  /\ status' = "no-tables"
  /\ pc' = "done"
  /\ UNCHANGED <<env, TABLES, store, faults, idx, total, pagesSeen,
                 metric_data, i, storeCalls, putCalls, scanLog>>

HandlerRun ==
  /\ pc = "start"
  /\ ~NoTables(TABLES)
  /\ metric_data' = <<>>
  /\ idx' = 1
  /\ pc' = "loop"
  /\ UNCHANGED <<env, TABLES, store, faults, total, pagesSeen, i,
                 storeCalls, putCalls, scanLog, status>>

\* lines 31-34: a blank entry is skipped
SkipBlank ==
  /\ pc = "loop"
  /\ idx <= Len(TABLES)
  /\ Blank(TABLES[idx])
  /\ idx' = idx + 1
  /\ UNCHANGED <<env, TABLES, store, faults, pc, total, pagesSeen,
                 metric_data, i, storeCalls, putCalls, scanLog, status>>

\* lines 35-36 and 17-19: scan_count is entered
ScanStart ==
  /\ pc = "loop"
  /\ idx <= Len(TABLES)
  /\ ~Blank(TABLES[idx])
  /\ total' = 0
  /\ pagesSeen' = <<>>
  /\ pc' = "paginate"
  /\ UNCHANGED <<env, TABLES, store, faults, idx, metric_data, i,
                 storeCalls, putCalls, scanLog, status>>

\* lines 20-21: the paginator delivers one more page
PageOk ==
  /\ pc = "paginate"
  /\ Len(pagesSeen) < store.maxPages
  /\ \E c \in store.counts :
       /\ total' = AddPage(total, c)
       /\ pagesSeen' = Append(pagesSeen, c)
  /\ storeCalls' = storeCalls + 1
  /\ UNCHANGED <<env, TABLES, store, faults, pc, idx, metric_data, i,
                 putCalls, scanLog, status>>

\* lines 26 and 37-43: the paginator is exhausted (it sends at least one
\* request), scan_count returns total and the point is appended
PaginateDone ==
  /\ pc = "paginate"
  /\ Len(pagesSeen) >= 1
  /\ metric_data' = Append(metric_data, MetricPoint(Strip(TABLES[idx]), total))
  /\ scanLog' = Append(scanLog, [idx |-> idx, table |-> Strip(TABLES[idx]),
                                 kind |-> "paginated", partial |-> 0,
                                 resp |-> SumSeq(pagesSeen)])
  /\ total' = 0
  /\ pagesSeen' = <<>>
  /\ idx' = idx + 1
  /\ pc' = "loop"
  /\ UNCHANGED <<env, TABLES, store, faults, i, storeCalls, putCalls, status>>

\* lines 20 and 22-23: a page request raises, before or after other pages
PaginateFail ==
  /\ pc = "paginate"
  /\ Len(pagesSeen) < store.maxPages
  /\ faults > 0
  /\ faults' = faults - 1
  /\ storeCalls' = storeCalls + 1
  /\ pc' = "fallback"
  /\ UNCHANGED <<env, TABLES, store, idx, total, pagesSeen, metric_data, i,
                 putCalls, scanLog, status>>

\* lines 24-26 and 37-43: the single scan answers
FallbackOk ==
  /\ pc = "fallback"
  /\ \E c \in store.counts :
       /\ metric_data' =
            Append(metric_data,
                   MetricPoint(Strip(TABLES[idx]), FallbackTotal(total, c)))
       /\ scanLog' = Append(scanLog, [idx |-> idx, table |-> Strip(TABLES[idx]),
                                      kind |-> "fallback",
                                      partial |-> SumSeq(pagesSeen), resp |-> c])
  /\ storeCalls' = storeCalls + 1
  /\ total' = 0
  /\ pagesSeen' = <<>>
  /\ idx' = idx + 1
  /\ pc' = "loop"
  /\ UNCHANGED <<env, TABLES, store, faults, i, putCalls, status>>

FallbackFailAborts ==
  /\ pc = "fallback"
  /\ faults > 0
  /\ faults' = faults - 1
  /\ storeCalls' = storeCalls + 1
  /\ scanLog' = Append(scanLog, [idx |-> idx, table |-> Strip(TABLES[idx]),
                                 kind |-> "failed", partial |-> 0, resp |-> 0])
  /\ total' = 0
  /\ pagesSeen' = <<>>
  /\ idx' = Len(TABLES) + 1
  /\ pc' = "loop"
  /\ UNCHANGED <<env, TABLES, store, metric_data, i, putCalls, status>>

FallbackFailEscapes ==
  /\ pc = "fallback"
  /\ faults > 0
  /\ faults' = faults - 1
  /\ storeCalls' = storeCalls + 1
  /\ scanLog' = Append(scanLog, [idx |-> idx, table |-> Strip(TABLES[idx]),
                                 kind |-> "failed", partial |-> 0, resp |-> 0])
  /\ pc' = "raised"
  /\ UNCHANGED <<env, TABLES, store, idx, total, pagesSeen, metric_data, i,
                 putCalls, status>>

\* lines 24 and 44-45: the single scan raises too; the exception leaves
\* scan_count, is logged by publish_counts, and the loop goes on
FallbackFail ==
  /\ pc = "fallback"
  /\ faults > 0
  /\ faults' = faults - 1
  /\ storeCalls' = storeCalls + 1
  /\ scanLog' = Append(scanLog, [idx |-> idx, table |-> Strip(TABLES[idx]),
                                 kind |-> "failed", partial |-> 0, resp |-> 0])
  /\ total' = 0
  /\ pagesSeen' = <<>>
  /\ idx' = idx + 1
  /\ pc' = "loop"
  /\ UNCHANGED <<env, TABLES, store, metric_data, i, putCalls, status>>

\* lines 47-49: the for loop over TABLES is over, the publish loop starts
StartPublish ==
  /\ pc = "loop"
  /\ idx > Len(TABLES)
  /\ i' = 0
  /\ pc' = "publish"
  /\ UNCHANGED <<env, TABLES, store, faults, idx, total, pagesSeen,
                 metric_data, storeCalls, putCalls, scanLog, status>>

\* lines 49-51: one batch is accepted by the sink
PutOk ==
  /\ pc = "publish"
  /\ MoreBatches(metric_data, i)
  /\ putCalls' = Append(putCalls, [Namespace |-> NAMESPACE,
                                   MetricData |-> Batch(metric_data, i),
                                   ok |-> TRUE])
  /\ i' = NextStart(i)
  /\ UNCHANGED <<env, TABLES, store, faults, pc, idx, total, pagesSeen,
                 metric_data, storeCalls, scanLog, status>>

PutFailContinues ==
  /\ pc = "publish"
  /\ MoreBatches(metric_data, i)
  /\ putCalls' = Append(putCalls, [Namespace |-> NAMESPACE,
                                   MetricData |-> Batch(metric_data, i),
                                   ok |-> FALSE])
  /\ i' = NextStart(i)
  /\ UNCHANGED <<env, TABLES, store, faults, pc, idx, total, pagesSeen,
                 metric_data, storeCalls, scanLog, status>>

\* lines 51, 53-55 and 64: put_metric_data raises; publish_counts returns
\* False and the handler returns "error"
PutFail ==
  /\ pc = "publish"
  /\ MoreBatches(metric_data, i)
  /\ putCalls' = Append(putCalls, [Namespace |-> NAMESPACE,
                                   MetricData |-> Batch(metric_data, i),
                                   ok |-> FALSE])
  /\ status' = StatusOf(FALSE)
  /\ pc' = "done"
  /\ UNCHANGED <<env, TABLES, store, faults, idx, total, pagesSeen,
                 metric_data, i, storeCalls, scanLog>>

\* lines 52 and 64: every batch went through; publish_counts returns True
PublishDone ==
  /\ pc = "publish"
  /\ ~MoreBatches(metric_data, i)
  /\ status' = StatusOf(TRUE)
  /\ pc' = "done"
  /\ UNCHANGED <<env, TABLES, store, faults, idx, total, pagesSeen,
                 metric_data, i, storeCalls, putCalls, scanLog>>

Next ==
  \/ HandlerNoTables
  \/ HandlerRun
  \/ SkipBlank
  \/ ScanStart
  \/ PageOk
  \/ PaginateDone
  \/ PaginateFail
  \/ FallbackOk
  \/ FallbackFail
  \/ StartPublish
  \/ PutOk
  \/ PutFail
  \/ PublishDone

Spec == Init /\ [][Next]_vars

\* The invocation is synchronous and single-threaded: whenever a step is
\* possible, one is taken.
FairSpec == Spec /\ WF_vars(Next)

TypeOK ==
  /\ pc \in {"start", "loop", "paginate", "fallback", "publish", "done"}
  /\ status \in Statuses \cup {"none"}
  /\ idx \in 0..(Len(TABLES) + 1)
  /\ faults \in 0..(MaxFaults + MaxLongFaults)
  /\ Len(metric_data) <= Len(TABLES)

\* ------------------------------------------------- vocabulary of the claims
\* The configured value holds nothing but whitespace and commas (or is unset).
AllBlankConfig == \A k \in 1..Len(EnvGet(env)) : EnvGet(env)[k] \in {",", " "}

IsBlankEntry(t) == \A k \in 1..Len(t) : t[k] = " "

\* positions of the non-blank entries of TABLES, in configuration order
NonBlankIdx ==
  SelectSeq([k \in 1..Len(TABLES) |-> k], LAMBDA k : ~IsBlankEntry(TABLES[k]))

\* the scan_count calls that returned a value, in call order
OkLog == SelectSeq(scanLog, LAMBDA e : e.kind # "failed")

Succ == Len(OkLog)

Ceil(n) == (n + BatchSize - 1) \div BatchSize

PointTable(p) == p.Dimensions[1].Value

RECURSIVE Flatten(_)
Flatten(ss) == IF ss = <<>> THEN <<>> ELSE ss[1] \o Flatten(Tail(ss))

Batches == [k \in 1..Len(putCalls) |-> putCalls[k].MetricData]

Last(s) == s[Len(s)]

\* ----------------------------------------------------------------------- C1
\* C1: whenever the configured table list is unset, empty, or made only of
\* whitespace and commas, the handler returns status "no-tables".
C1_BlankConfigReturnsNoTables ==
  (pc = "done" /\ AllBlankConfig) => status = "no-tables"

\* ----------------------------------------------------------------------- C2
\* C2: with a table list that has no non-blank entry, an invocation sends no
\* request to the remote store and makes no put_metric_data call.
C2_BlankConfigNoRemoteCalls ==
  AllBlankConfig => (storeCalls = 0 /\ putCalls = <<>>)

\* publish_counts has run to its end over a list of blank entries only
C2_Witness ==
  /\ pc = "done"
  /\ AllBlankConfig
  /\ Len(TABLES) >= 2
  /\ \E k \in 1..Len(TABLES) : TABLES[k] # <<>>
  /\ idx > Len(TABLES)
  /\ status = "ok"

\* ----------------------------------------------------------------------- C3
\* C3 (as stated): for every non-empty table list and every combination of
\* count and publish outcomes, the number of put_metric_data calls of a run
\* equals ceil(successful_table_count / 20).
C3_CallsEqualCeilAlways ==
  (pc = "done" /\ ~AllBlankConfig) => Len(putCalls) = Ceil(Succ)

\* C3 (amended): for every non-empty table list and every combination of
\* count outcomes, the number of put_metric_data calls equals
\* ceil(successful_table_count / 20) when every call succeeds; when a call
\* fails it is the last one made, so the number lies between 1 and that
\* ceiling.
C3_CallsEqualCeilUnlessPublishFails ==
  (pc = "done" /\ ~AllBlankConfig) =>
     IF status = "ok"
     THEN Len(putCalls) = Ceil(Succ)
     ELSE /\ 1 <= Len(putCalls)
          /\ Len(putCalls) <= Ceil(Succ)
          /\ ~Last(putCalls).ok

\* a publish failure left later batches unsubmitted
C3_Witness ==
  /\ pc = "done"
  /\ status = "error"
  /\ Succ > BatchSize
  /\ Len(putCalls) < Ceil(Succ)

\* ----------------------------------------------------------------------- C4
\* C4: in a run with at least one non-blank table, the status is "error"
\* exactly when some put_metric_data call failed and "ok" exactly when every
\* call made succeeded, wherever the failing batch sits.
C4_StatusReflectsPublish ==
  (pc = "done" /\ ~AllBlankConfig) =>
     /\ status = "error" <=> (\E k \in 1..Len(putCalls) : ~putCalls[k].ok)
     /\ status = "ok" <=> (\A k \in 1..Len(putCalls) : putCalls[k].ok)

\* a later batch failed after an earlier one had been accepted
C4_Witness ==
  /\ pc = "done"
  /\ status = "error"
  /\ Len(putCalls) >= 2
  /\ putCalls[1].ok
  /\ ~Last(putCalls).ok

\* ----------------------------------------------------------------------- C5
\* C5: scan_count returns the sum of the page Counts when pagination
\* completes, and exactly the single scan's Count when pagination raised
\* (pages summed before the failure are discarded); either way the table
\* contributes one point carrying that value.
C5_ScanCountValue ==
  /\ Len(metric_data) = Succ
  /\ \A k \in 1..Succ :
       metric_data[k] = MetricPoint(OkLog[k].table, OkLog[k].resp)

\* the fallback has just answered after pages with a positive sum had been
\* delivered, with a Count that differs from that partial sum
C5_Witness ==
  /\ pc = "loop"
  /\ scanLog # <<>>
  /\ Last(scanLog).kind = "fallback"
  /\ Last(scanLog).idx = idx - 1
  /\ Last(scanLog).partial > 0
  /\ Last(scanLog).resp # Last(scanLog).partial
  /\ Last(metric_data).Value = Last(scanLog).resp

\* ----------------------------------------------------------------------- C6
\* C6: a table whose paginated scan and fallback both fail yields no point,
\* every non-blank table of the list is still counted, and the accumulated
\* points are exactly the tables whose count succeeded, in order.
C6_PartialFailureIsolation ==
  (pc \in {"publish", "done"} /\ status # "no-tables") =>
     /\ [k \in 1..Len(scanLog) |-> scanLog[k].idx] = NonBlankIdx
     /\ [k \in 1..Len(metric_data) |-> PointTable(metric_data[k])]
          = [k \in 1..Succ |-> Strip(TABLES[OkLog[k].idx])]

\* a table failed and a later table was counted
C6_Witness ==
  /\ pc = "done"
  /\ \E j, k \in 1..Len(scanLog) :
       /\ j < k
       /\ scanLog[j].kind = "failed"
       /\ scanLog[k].kind # "failed"
  /\ Len(metric_data) = Len(scanLog) - 1

\* ----------------------------------------------------------------------- C7
\* C7: when every put_metric_data call succeeds, the batches are non-empty,
\* hold at most 20 points, all but the last hold exactly 20, and their
\* concatenation is the sequence of successfully counted tables in
\* configuration order, duplicates kept.
C7_BatchesPartitionPoints ==
  (pc = "done" /\ status = "ok") =>
     /\ \A k \in 1..Len(Batches) :
          /\ Len(Batches[k]) >= 1
          /\ Len(Batches[k]) <= BatchSize
          /\ k < Len(Batches) => Len(Batches[k]) = BatchSize
     /\ Flatten(Batches)
          = [k \in 1..Succ |-> MetricPoint(Strip(TABLES[OkLog[k].idx]), OkLog[k].resp)]

\* two batches or more went through, carrying a table listed more than once
C7_Witness ==
  /\ pc = "done"
  /\ status = "ok"
  /\ Len(putCalls) >= 2
  /\ Len(Last(Batches)) < BatchSize
  /\ \E j, k \in 1..Len(metric_data) :
       j # k /\ PointTable(metric_data[j]) = PointTable(metric_data[k])

\* ----------------------------------------------------------------------- C8
\* C8: whatever the configuration and whichever remote calls fail, the
\* invocation ends and returns one of "ok", "error", "no-tables"; no failure
\* of a remote call leaves the handler.
C8_TerminatesWithStatus == <>(pc = "done" /\ status \in Statuses)

\* a run in which the store and the sink both failed has returned
C8_Witness ==
  /\ pc = "done"
  /\ status = "error"
  /\ \E k \in 1..Len(scanLog) : scanLog[k].kind = "failed"

\* ----------------------------------------------------------------------- C9
\* C9: the put_metric_data calls of a run are the leading batches of the
\* ordered batch sequence, a failed call is the last call made, and the
\* batches accepted before it stay as they were submitted.
C9_PublishStopsAtFirstFailure ==
  \A k \in 1..Len(putCalls) :
     /\ putCalls[k].MetricData =
          SubSeq(metric_data, (k - 1) * BatchSize + 1,
                 Min(k * BatchSize, Len(metric_data)))
     /\ k < Len(putCalls) => putCalls[k].ok

\* a batch failed after an accepted one, and a later batch was never sent
C9_Witness ==
  /\ pc = "done"
  /\ Len(putCalls) >= 2
  /\ putCalls[1].ok
  /\ ~Last(putCalls).ok
  /\ Len(putCalls) * BatchSize < Len(metric_data)

\* ---------------------------------------------------------------------- C10
\* C10: when the list has a non-blank table and the count fails for every
\* non-blank table, no put_metric_data call is made and the status is "ok".
C10_AllCountsFailStillOk ==
  (/\ pc = "done"
   /\ ~AllBlankConfig
   /\ \A k \in 1..Len(scanLog) : scanLog[k].kind = "failed")
  => (putCalls = <<>> /\ status = "ok")

\* two tables were configured and both failed
C10_Witness ==
  /\ pc = "done"
  /\ Len(scanLog) >= 2
  /\ \A k \in 1..Len(scanLog) : scanLog[k].kind = "failed"
  /\ status = "ok"

====
